---- MODULE Spec2Model ----
(***************************************************************************)
(* A model of build_matrix.py (the alignment engine) and of update.py (the *)
(* writer of the per-instrument files it reads).                           *)
(*                                                                         *)
(* A source file is a sequence of lines; a line is a record of two text    *)
(* tokens, [date, price].  A date token is <<y, m, d, hh>> (the text       *)
(* "y/m/d hh:00"); a price token is a string.  A parsed value is a record  *)
(* [kind, v] with kind "num", "nan" or "inf".                              *)
(***************************************************************************)
EXTENDS Integers, Sequences, FiniteSets, TLC

VARIABLES
    fs,          \* the file system: in_dir |-> [exists, files], the files a
                 \* set of [stem, bytes], bytes the lines of stem.csv
    arg_market,  \* args.market ("" when --market is not given)
    pc,          \* position of the process: start, loop, check, clean, hash,
                 \* build, return, done, raised
    todo,        \* markets the loop of main has still to build
    cur,         \* the market build_market was called with
    csv_files,   \* build_market: the files the load loop has still to read
    series_map,  \* build_market: ticker |-> Series
    file_meta,   \* build_market: ticker |-> FileMeta
    parsed,      \* ticker |-> the lines read_csv returned for its file
    reads,       \* stem |-> number of times build_market opened the file
    wrote,       \* the artifacts the current build_market call has written
    attempted,   \* the markets build_market was called with in this run
    out,         \* the output directories: market |-> artifacts
    writes,      \* number of files update.py has replaced
    rerun,       \* TRUE in the second run of the program
    prev_out,    \* the output directories as the first run left them
    prev_pc,     \* how the first run ended
    cl_bytes,    \* input of clean_single_csv_fixed_format
    cl_result,   \* its result
    pm_preferred,  \* inputs of pick_master_ticker
    pm_available,
    pm_result,   \* its result
    cl_pc,       \* "call" before clean_single_csv_fixed_format ran
    pm_pc        \* "call" before pick_master_ticker ran

progVars == <<fs, arg_market, pc, todo, cur, csv_files, series_map, file_meta,
              parsed, reads, wrote, attempted, out, writes, rerun, prev_out,
              prev_pc>>
cleanVars == <<cl_bytes, cl_result, cl_pc>>
pickVars == <<pm_preferred, pm_available, pm_result, pm_pc>>
vars == <<progVars, cleanVars, pickVars>>

----------------------------------------------------------------------------
(* Bounds of the model *)

\* data lines per file, Spec
MaxRecords == 2
\* data lines per file, SpecOneRun
MaxRows == 3
\* data lines per file, clean_single_csv_fixed_format alone
MaxLines == 3
\* length of a preference list, pick_master_ticker alone
MaxPreferred == 2
\* files update.py replaces while the program runs
MaxWrites == 1

----------------------------------------------------------------------------
(* Strings: Python compares str by code point; digits < upper < lower case *)

StrOrder ==
    <<"0050.TW", "0055.TW", "2330.TW", "QQQ", "SPY", "TLT", "TW", "US",
      "spy", "tw", "us">>

Rank(s) == CHOOSE i \in 1..Len(StrOrder) : StrOrder[i] = s

StrLess(a, b) == Rank(a) < Rank(b)

\* sorted(S) for a set of strings: its elements in ascending order
sorted(S) ==
    [k \in 1..Cardinality(S) |->
        CHOOSE s \in S : Cardinality({x \in S : StrLess(x, s)}) = k - 1]

\* str.upper()
upper(s) ==
    IF s = "spy" THEN "SPY"
    ELSE IF s = "tw" THEN "TW"
    ELSE IF s = "us" THEN "US"
    ELSE s

----------------------------------------------------------------------------
(* Dates *)

IsLeap(y) == (y % 4 = 0 /\ y % 100 # 0) \/ y % 400 = 0

DaysInMonth(y, m) ==
    IF m = 2 THEN (IF IsLeap(y) THEN 29 ELSE 28)
    ELSE IF m \in {4, 6, 9, 11} THEN 30 ELSE 31

\* whether pd.to_datetime(errors="raise") accepts the token
ParseableDate(tok) ==
    /\ tok[2] \in 1..12
    /\ tok[3] \in 1..DaysInMonth(tok[1], tok[2])
    /\ tok[4] \in 0..23

\* .dt.normalize(): the time of day is dropped
normalize(tok) == <<tok[1], tok[2], tok[3]>>

\* days since 1970-01-01 of the date <<y, m, d>> (a datetime64 orders and
\* subtracts by it)
Ordinal(d) ==
    LET y == IF d[2] <= 2 THEN d[1] - 1 ELSE d[1]
        era == y \div 400
        yoe == y - era * 400
        mp == IF d[2] > 2 THEN d[2] - 3 ELSE d[2] + 9
        doy == (153 * mp + 2) \div 5 + d[3] - 1
        doe == yoe * 365 + yoe \div 4 - yoe \div 100 + doy
    IN era * 146097 + doe - 719468

----------------------------------------------------------------------------
(* Prices *)

NaN == [kind |-> "nan", v |-> 0]
Inf == [kind |-> "inf", v |-> 0]
Num(x) == [kind |-> "num", v |-> x]

Decimal == [t \in {"10", "20"} |-> IF t = "10" THEN 10 ELSE 20]

\* whether pd.read_csv / pd.to_numeric(errors="raise") accept the token
ParseablePrice(tok) == tok \in DOMAIN Decimal \cup {"", "nan", "inf"}

\* the float the token parses to: an empty field and "nan" are NaN
ParsePrice(tok) ==
    IF tok \in DOMAIN Decimal THEN Num(Decimal[tok])
    ELSE IF tok = "inf" THEN Inf ELSE NaN

----------------------------------------------------------------------------
(* clean_single_csv_fixed_format *)

SkipRows == 3

\* the three junk lines update.py's to_csv puts first (Price/Ticker/Date)
Header ==
    << [date |-> <<0, 0, 0, 0>>, price |-> "AdjClose"],
       [date |-> <<0, 0, 0, 0>>, price |-> "QQQ"],
       [date |-> <<0, 0, 0, 0>>, price |-> ""] >>

\* pd.read_csv(path, skiprows=3, header=None, names=["Date", "AdjClose"])
read_csv(bytes) ==
    [i \in 1..(IF Len(bytes) > SkipRows THEN Len(bytes) - SkipRows ELSE 0) |->
        [Date |-> bytes[i + SkipRows].date,
         AdjClose |-> bytes[i + SkipRows].price]]

\* df["Date"] = pd.to_datetime(df["Date"]).dt.normalize(), when no token raises
to_datetime(df) ==
    [i \in 1..Len(df) |->
        [Date |-> normalize(df[i].Date), AdjClose |-> df[i].AdjClose]]

Perms(n) == {p \in [1..n -> 1..n] : \A i, j \in 1..n : i # j => p[i] # p[j]}

\* df.sort_values("Date"): kind defaults to "quicksort", which is not stable,
\* so every ordering that is ascending in Date is a possible result
sort_values(df) ==
    {[i \in 1..Len(df) |-> df[p[i]]] :
        p \in {q \in Perms(Len(df)) :
                 \A i, j \in 1..Len(df) :
                    i < j => Ordinal(df[q[i]].Date) <= Ordinal(df[q[j]].Date)}}

\* the rows of df at the positions in I, in order
Rows(df, I) ==
    [k \in 1..Cardinality(I) |->
        df[CHOOSE i \in I : Cardinality({j \in I : j < i}) = k - 1]]

\* mutant: the duplicates are not dropped
drop_duplicates_none(df) == df

\* df.drop_duplicates("Date", keep="last")
drop_duplicates(df) ==
    Rows(df, {i \in 1..Len(df) :
                \A j \in (i + 1)..Len(df) : df[j].Date # df[i].Date})

\* df["AdjClose"] = pd.to_numeric(df["AdjClose"]), when no token raises;
\* s = df.set_index("Date")["AdjClose"]
to_numeric(df) ==
    [i \in 1..Len(df) |->
        [Date |-> df[i].Date, AdjClose |-> ParsePrice(df[i].AdjClose)]]

Raised == [ok |-> FALSE, s |-> <<>>]

\* the possible results of clean_single_csv_fixed_format on a file holding
\* bytes: a Series, or an exception of to_datetime or to_numeric
clean_single_csv_fixed_format(bytes) ==
    LET df == read_csv(bytes) IN
    IF \E i \in 1..Len(df) : ~ParseableDate(df[i].Date)
    THEN {Raised}
    ELSE {IF \E i \in 1..Len(dd) : ~ParseablePrice(dd[i].AdjClose)
          THEN Raised
          ELSE [ok |-> TRUE, s |-> to_numeric(dd)] :
            dd \in {drop_duplicates(sd) : sd \in sort_values(to_datetime(df))}}

----------------------------------------------------------------------------
(* pick_master_ticker *)

NoTicker == ""

\* mutant: the preference list is ignored
pick_smallest(preferred_master, available) ==
    IF available = {} THEN NoTicker ELSE sorted(available)[1]

\* NoTicker stands for the IndexError of sorted(list(available))[0]
pick_master_ticker(preferred_master, available) ==
    IF \E i \in 1..Len(preferred_master) : preferred_master[i] \in available
    THEN preferred_master[
            CHOOSE i \in 1..Len(preferred_master) :
                /\ preferred_master[i] \in available
                /\ \A j \in 1..(i - 1) : preferred_master[j] \notin available]
    ELSE IF available = {} THEN NoTicker
    ELSE sorted(available)[1]

----------------------------------------------------------------------------
(* Config and the file system *)

MARKETS ==
    [tw |-> [in_dir |-> "tw", out_dir |-> "matrices/tw",
             preferred_master |-> <<"0050.TW", "0055.TW", "2330.TW">>],
     us |-> [in_dir |-> "us", out_dir |-> "matrices/us",
             preferred_master |-> <<"QQQ", "SPY">>]]

OUT_FILES == {"prices", "month_ends", "health", "summary", "manifest"}

\* a directory that does not exist
Missing == [exists |-> FALSE, files |-> {}]

\* the lines of the file stem.csv of directory dir
Bytes(dir, stem) == (CHOOSE f \in dir.files : f.stem = stem).bytes

\* sha256_file: a digest is equal to another exactly when the bytes are
sha256_file(bytes) == [sha256_of |-> bytes]

----------------------------------------------------------------------------
(* build_market: the values it computes *)

DateLess(a, b) == Ordinal(a) < Ordinal(b)

\* s.index
Index(s) == [i \in 1..Len(s) |-> s[i].Date]

\* index.min() and index.max() of a non-empty index
IndexMin(idx) ==
    idx[CHOOSE i \in 1..Len(idx) :
            \A j \in 1..Len(idx) : Ordinal(idx[i]) <= Ordinal(idx[j])]

IndexMax(idx) ==
    idx[CHOOSE i \in 1..Len(idx) :
            \A j \in 1..Len(idx) : Ordinal(idx[i]) >= Ordinal(idx[j])]

\* s.reindex(master_dates): the value of s at each master date, NaN where s
\* has no such date
reindex(s, master_dates) ==
    [i \in 1..Len(master_dates) |->
        IF \E j \in 1..Len(s) : s[j].Date = master_dates[i]
        THEN s[CHOOSE j \in 1..Len(s) : s[j].Date = master_dates[i]].AdjClose
        ELSE NaN]

\* df = pd.DataFrame(index=master_dates); df[t] = series_map[t].reindex(...)
build_matrix(smap, tickers, master_dates) ==
    [index |-> master_dates,
     columns |-> tickers,
     data |-> [t \in DOMAIN smap |-> reindex(smap[t], master_dates)]]

\* mutant: the groups are ordered by month alone, then year
MonthYearLess(a, b) == a[2] < b[2] \/ (a[2] = b[2] /\ a[1] < b[1])

YearMonthLess(a, b) == a[1] < b[1] \/ (a[1] = b[1] /\ a[2] < b[2])

\* groupby(["Year", "Month"], as_index=False)["MonthEndDate"].max(): one row
\* for each (Year, Month) group, the groups in sorted key order
month_end_dates(master_dates) ==
    LET dates == {master_dates[i] : i \in 1..Len(master_dates)}
        groups == {<<d[1], d[2]>> : d \in dates}
        keys == [k \in 1..Cardinality(groups) |->
                    CHOOSE g \in groups :
                       Cardinality({x \in groups : YearMonthLess(x, g)})
                          = k - 1]
    IN [k \in 1..Len(keys) |->
          [Year |-> keys[k][1],
           Month |-> keys[k][2],
           MonthEndDate |->
              CHOOSE d \in dates :
                 /\ <<d[1], d[2]>> = keys[k]
                 /\ \A e \in dates :
                       <<e[1], e[2]>> = keys[k] => Ordinal(e) <= Ordinal(d)]]

\* mutant: ascending=[True, True]
HealthLessAscending(a, b) ==
    \/ a.LagToMasterMax_Days < b.LagToMasterMax_Days
    \/ /\ a.LagToMasterMax_Days = b.LagToMasterMax_Days
       /\ StrLess(a.Ticker, b.Ticker)

\* the order of sort_values(["LagToMasterMax_Days", "Ticker"],
\* ascending=[False, True])
HealthLess(a, b) ==
    \/ a.LagToMasterMax_Days > b.LagToMasterMax_Days
    \/ /\ a.LagToMasterMax_Days = b.LagToMasterMax_Days
       /\ StrLess(a.Ticker, b.Ticker)

\* the rows of the health report before the missing statistics are attached
health_rows(smap, tickers, master_dates) ==
    LET master_max == IndexMax(master_dates)
        row(t) ==
            [Ticker |-> t,
             MinDate |-> IndexMin(Index(smap[t])),
             MaxDate |-> IndexMax(Index(smap[t])),
             Rows |-> Len(smap[t]),
             LagToMasterMax_Days |->
                Ordinal(master_max) - Ordinal(IndexMax(Index(smap[t])))]
        rows == {row(tickers[i]) : i \in 1..Len(tickers)}
    IN [k \in 1..Cardinality(rows) |->
          CHOOSE r \in rows :
             Cardinality({x \in rows : HealthLess(x, r)}) = k - 1]

\* n / d rounded to an integer, halves to even
RoundDiv(n, d) ==
    LET q == n \div d
        r == n % d
    IN IF 2 * r < d THEN q
       ELSE IF 2 * r > d THEN q + 1
       ELSE IF q % 2 = 0 THEN q ELSE q + 1

\* df.isna().sum()
missing_counts(df) ==
    [t \in DOMAIN df.data |->
        Cardinality({i \in 1..Len(df.index) : df.data[t][i].kind = "nan"})]

\* health["MissingInFullMatrix"] = health["Ticker"].map(...): the columns are
\* attached row by row; MissingPctInFullMatrix is kept in thousandths
health_report(smap, tickers, master_dates, df) ==
    LET h == health_rows(smap, tickers, master_dates)
        mc == missing_counts(df)
    IN [i \in 1..Len(h) |->
          [Ticker |-> h[i].Ticker,
           MinDate |-> h[i].MinDate,
           MaxDate |-> h[i].MaxDate,
           Rows |-> h[i].Rows,
           LagToMasterMax_Days |-> h[i].LagToMasterMax_Days,
           MissingInFullMatrix |-> mc[h[i].Ticker],
           MissingPctInFullMatrix |->
              RoundDiv(mc[h[i].Ticker] * 100000, Len(master_dates))]]

NanCells(df) ==
    Cardinality({<<t, i>> \in (DOMAIN df.data) \X (1..Len(df.index)) :
                    df.data[t][i].kind = "nan"})

make_manifest(market, master, master_dates, tickers, df, months, fmeta) ==
    [scope |-> <<upper(market), "_FULL_MATRIX">>,
     in_dir |-> MARKETS[market].in_dir,
     master_ticker |-> master,
     master_min_date |-> IndexMin(master_dates),
     master_max_date |-> IndexMax(master_dates),
     master_trading_days |-> Len(master_dates),
     tickers |-> tickers,
     matrix |-> [rows |-> Len(df.index),
                 cols |-> Len(df.columns),
                 min_date |-> IndexMin(df.index),
                 max_date |-> IndexMax(df.index),
                 nan_cells |-> NanCells(df)],
     month_ends |-> [months |-> Len(months)],
     files |-> fmeta]

\* the head of summary.txt (its two rankings are free-form text, left out)
make_summary(market, master, master_dates, df) ==
    [market |-> upper(market),
     master |-> master,
     trading_days |-> Len(master_dates),
     shape |-> <<Len(df.index), Len(df.columns)>>,
     nan_cells |-> NanCells(df)]

\* an output directory nothing was written to
NoArtifacts ==
    [written |-> {}, prices |-> <<>>, month_ends |-> <<>>, health |-> <<>>,
     manifest |-> <<>>, summary |-> <<>>]

\* what lines 109-207 write, from the loaded series
artifacts(market, smap, fmeta) ==
    LET tickers == sorted(DOMAIN smap)
        master == pick_master_ticker(MARKETS[market].preferred_master,
                                     DOMAIN smap)
        master_dates == Index(smap[master])
        df == build_matrix(smap, tickers, master_dates)
        months == month_end_dates(master_dates)
    IN [written |-> OUT_FILES,
        prices |-> df,
        month_ends |-> months,
        health |-> health_report(smap, tickers, master_dates, df),
        manifest |-> make_manifest(market, master, master_dates, tickers,
                                   df, months, fmeta),
        summary |-> make_summary(market, master, master_dates, df)]

----------------------------------------------------------------------------
(* The program: main and build_market, step by step *)

EmptyMap == [t \in {} |-> 0]

\* main: parse_args; the markets to build, in loop order
Main ==
    /\ pc = "start"
    /\ todo' = IF arg_market # "" THEN <<arg_market>>
               ELSE sorted(DOMAIN MARKETS)
    /\ pc' = "loop"
    /\ UNCHANGED <<cleanVars, pickVars, fs, arg_market, cur, csv_files, series_map, file_meta,
                   parsed, reads, wrote, attempted, out, writes, rerun,
                   prev_out, prev_pc>>

\* main: the next build_market(m) call
CallBuild ==
    /\ pc = "loop"
    /\ todo # <<>>
    /\ cur' = Head(todo)
    /\ todo' = Tail(todo)
    /\ attempted' = attempted \cup {Head(todo)}
    /\ csv_files' = <<>>
    /\ series_map' = EmptyMap
    /\ file_meta' = EmptyMap
    /\ parsed' = EmptyMap
    /\ reads' = EmptyMap
    /\ wrote' = {}
    /\ pc' = "check"
    /\ UNCHANGED <<cleanVars, pickVars, fs, arg_market, out, writes, rerun, prev_out, prev_pc>>

\* main returns: every market of the loop was built
MainReturn ==
    /\ pc = "loop"
    /\ todo = <<>>
    /\ pc' = "done"
    /\ UNCHANGED <<cleanVars, pickVars, fs, arg_market, todo, cur, csv_files, series_map,
                   file_meta, parsed, reads, wrote, attempted, out, writes,
                   rerun, prev_out, prev_pc>>

\* build_market, lines 79-91: FileNotFoundError, or the sorted file list.
\* The exception is caught nowhere: the process ends.  (argparse's choices
\* and the loop of main pass only keys of MARKETS, so the ValueError of
\* line 80 is never raised.)
CheckInput ==
    /\ pc = "check"
    /\ LET dir == fs[MARKETS[cur].in_dir] IN
       \/ /\ ~dir.exists
          /\ pc' = "raised"
          /\ UNCHANGED csv_files
       \/ /\ dir.exists
          /\ dir.files = {}
          /\ pc' = "raised"
          /\ UNCHANGED csv_files
       \/ /\ dir.exists
          /\ dir.files # {}
          /\ csv_files' = sorted({f.stem : f \in dir.files})
          /\ pc' = "clean"
    /\ UNCHANGED <<cleanVars, pickVars, fs, arg_market, todo, cur, series_map, file_meta, parsed,
                   reads, wrote, attempted, out, writes, rerun, prev_out,
                   prev_pc>>

Bump(f, k) == (k :> (IF k \in DOMAIN f THEN f[k] + 1 ELSE 1)) @@ f

\* the load loop, lines 98-100: s = clean_single_csv_fixed_format(p).  An
\* exception of the parse is caught nowhere: the process ends.
CleanFile ==
    /\ pc = "clean"
    /\ LET p == Head(csv_files)
           t == upper(p)
           bytes == Bytes(fs[MARKETS[cur].in_dir], p)
       IN /\ reads' = Bump(reads, p)
          /\ parsed' = (t :> bytes) @@ parsed
          /\ \E r \in clean_single_csv_fixed_format(bytes) :
                \/ /\ r.ok
                   /\ series_map' = (t :> r.s) @@ series_map
                   /\ pc' = "hash"
                \/ /\ ~r.ok
                   /\ pc' = "raised"
                   /\ UNCHANGED series_map
    /\ UNCHANGED <<cleanVars, pickVars, fs, arg_market, todo, cur, csv_files, file_meta, wrote,
                   attempted, out, writes, rerun, prev_out, prev_pc>>

\* the load loop, lines 101-107: the file is opened again for its digest
HashFile ==
    /\ pc = "hash"
    /\ LET p == Head(csv_files)
           t == upper(p)
           s == series_map[t]
           meta == [file |-> <<MARKETS[cur].in_dir, p>>,
                    sha256 |-> sha256_file(Bytes(fs[MARKETS[cur].in_dir], p)),
                    rows |-> Len(s),
                    min_date |-> IndexMin(Index(s)),
                    max_date |-> IndexMax(Index(s))]
       IN /\ reads' = Bump(reads, p)
          /\ file_meta' = (t :> meta) @@ file_meta
    /\ csv_files' = Tail(csv_files)
    /\ pc' = IF Tail(csv_files) = <<>> THEN "build" ELSE "clean"
    /\ UNCHANGED <<cleanVars, pickVars, fs, arg_market, todo, cur, series_map, parsed, wrote,
                   attempted, out, writes, rerun, prev_out, prev_pc>>

\* lines 109-207: align, and write the five artifacts
BuildOutputs ==
    /\ pc = "build"
    /\ out' = [out EXCEPT ![cur] = artifacts(cur, series_map, file_meta)]
    /\ wrote' = OUT_FILES
    /\ pc' = "return"
    /\ UNCHANGED <<cleanVars, pickVars, fs, arg_market, todo, cur, csv_files, series_map,
                   file_meta, parsed, reads, attempted, writes, rerun,
                   prev_out, prev_pc>>

\* build_market returns to the loop of main
BuildReturn ==
    /\ pc = "return"
    /\ pc' = "loop"
    /\ UNCHANGED <<cleanVars, pickVars, fs, arg_market, todo, cur, csv_files, series_map,
                   file_meta, parsed, reads, wrote, attempted, out, writes,
                   rerun, prev_out, prev_pc>>

\* the tickers of update.py's lists that the model's directories hold, and
\* what a download can bring
WriterTickers == {"QQQ", "0050.TW"}

WriterContents ==
    {Header \o <<[date |-> <<2020, 1, 2, 0>>, price |-> "20"]>>}

\* update.py, download_adj_close: df.to_csv(f"{folder}/{ticker}.csv") puts
\* new bytes in a file of an input directory, whatever build_matrix.py is
\* doing at the time
ExternalWrite ==
    /\ writes < MaxWrites
    /\ \E folder \in DOMAIN fs, bytes \in WriterContents :
          \E f \in fs[folder].files :
             /\ f.stem \in WriterTickers
             /\ f.bytes # bytes
             /\ fs' = [fs EXCEPT ![folder].files =
                          (@ \ {f}) \cup {[stem |-> f.stem, bytes |-> bytes]}]
    /\ writes' = writes + 1
    /\ UNCHANGED <<cleanVars, pickVars, arg_market, pc, todo, cur, csv_files, series_map,
                   file_meta, parsed, reads, wrote, attempted, out, rerun,
                   prev_out, prev_pc>>

\* the program is run a second time (lines 230-231), with the same arguments
Rerun ==
    /\ pc \in {"done", "raised"}
    /\ ~rerun
    /\ rerun' = TRUE
    /\ prev_out' = out
    /\ prev_pc' = pc
    /\ pc' = "start"
    /\ todo' = <<>>
    /\ cur' = ""
    /\ csv_files' = <<>>
    /\ series_map' = EmptyMap
    /\ file_meta' = EmptyMap
    /\ parsed' = EmptyMap
    /\ reads' = EmptyMap
    /\ wrote' = {}
    /\ attempted' = {}
    /\ UNCHANGED <<cleanVars, pickVars, fs, arg_market, out, writes>>

\* one run of the program, nothing else touching its files
NextOneRun ==
    \/ Main
    \/ CallBuild
    \/ MainReturn
    \/ CheckInput
    \/ CleanFile
    \/ HashFile
    \/ BuildOutputs
    \/ BuildReturn

Next ==
    \/ NextOneRun
    \/ ExternalWrite
    \/ Rerun

\* clean_single_csv_fixed_format is applied to cl_bytes
CleanCall ==
    /\ cl_pc = "call"
    /\ cl_result' \in clean_single_csv_fixed_format(cl_bytes)
    /\ cl_pc' = "returned"
    /\ UNCHANGED <<progVars, pickVars, cl_bytes>>

\* pick_master_ticker is applied to pm_preferred and pm_available
PickCall ==
    /\ pm_pc = "call"
    /\ pm_result' = pick_master_ticker(pm_preferred, pm_available)
    /\ pm_pc' = "returned"
    /\ UNCHANGED <<progVars, cleanVars, pm_preferred, pm_available>>

----------------------------------------------------------------------------
(* The inputs.  Every file holds the header and at least one data line,   *)
(* as the files update.py writes do (it writes none when a download is     *)
(* empty).                                                                 *)

\* the sequences over S of length lo to hi
SeqsOf(S, lo, hi) == UNION {[1..k -> S] : k \in lo..hi}

\* the files update.py can have written: the header, then lo to hi data lines
Contents(records, lo, hi) ==
    {Header \o data : data \in SeqsOf(records, lo, hi)}

\* no file stem.csv, or one holding one of the contents
FileOrNone(stem, contents) ==
    {{}} \cup {{[stem |-> stem, bytes |-> b]} : b \in contents}

Dir(files) == [exists |-> TRUE, files |-> files]

Line(d, p) == [date |-> d, price |-> p]

\* "2019/12/31", "2020/1/2", "2020/1/31"; "2020/2/30" is no date
D1 == <<2019, 12, 31, 0>>
D2 == <<2020, 1, 2, 0>>
D3 == <<2020, 1, 31, 0>>
NoDate == <<2020, 2, 30, 0>>

ProgInit ==
    /\ pc = "start"
    /\ todo = <<>>
    /\ cur = ""
    /\ csv_files = <<>>
    /\ series_map = EmptyMap
    /\ file_meta = EmptyMap
    /\ parsed = EmptyMap
    /\ reads = EmptyMap
    /\ wrote = {}
    /\ attempted = {}
    /\ out = [m \in DOMAIN MARKETS |-> NoArtifacts]
    /\ writes = 0
    /\ rerun = FALSE
    /\ prev_out = [m \in DOMAIN MARKETS |-> NoArtifacts]
    /\ prev_pc = ""

ProgIdle ==
    /\ ProgInit
    /\ arg_market = ""
    /\ fs = [tw |-> Missing, us |-> Missing]

CleanIdle ==
    /\ cl_bytes = <<>>
    /\ cl_result = Raised
    /\ cl_pc = "returned"

PickIdle ==
    /\ pm_preferred = <<>>
    /\ pm_available = {}
    /\ pm_result = NoTicker
    /\ pm_pc = "returned"

\* a valid directory tw/
TwFiles == FileOrNone("0050.TW", Contents({Line(D2, "10")}, 1, 1))

\* Lines of the files of Spec: two dates; two values, an empty and an
\* unparseable price; an unparseable date
RunRecords ==
    {Line(d, p) : d \in {D2, D3}, p \in {"10", "20", "", "abc"}}
        \cup {Line(NoDate, "10")}

RunContents == Contents(RunRecords, 1, MaxRecords)

\* Spec: --market us over every directory us/ of two files, or the loop over
\* both markets with each directory missing, empty or holding one file
Init ==
    /\ ProgInit
    /\ CleanIdle
    /\ PickIdle
    /\ \/ /\ arg_market = "us"
          /\ fs \in [tw : {Missing},
                     us : {Missing} \cup
                          {Dir(a \cup b) :
                             a \in FileOrNone("QQQ", RunContents),
                             b \in FileOrNone("spy", RunContents)}]
       \/ /\ arg_market \in {"", "tw"}
          /\ fs \in [tw : {Missing} \cup {Dir(a) : a \in TwFiles},
                     us : {Missing} \cup
                          {Dir(a) : a \in FileOrNone("QQQ",
                                     Contents({Line(D2, "10")}, 1, 1))}]

Spec == Init /\ [][Next]_vars

\* Lines of the files of SpecOneRun: three dates in two months of two years,
\* and an unparseable date
DateRecords == {Line(d, "10") : d \in {D1, D2, D3}} \cup {Line(NoDate, "10")}

\* the second file has dates of two months only
SpyRecords == {Line(D1, "10"), Line(D3, "10")}

\* SpecOneRun: one run, no writer, over every directory us/ of three files
InitOneRun ==
    /\ ProgInit
    /\ CleanIdle
    /\ PickIdle
    /\ arg_market \in {"", "us"}
    /\ fs \in [tw : {Dir(a) : a \in TwFiles \ {{}}},
               us : {Missing} \cup
                    {Dir(a \cup b \cup c) :
                       a \in FileOrNone("QQQ", Contents(DateRecords, 1, MaxRows)),
                       b \in FileOrNone("spy", Contents(SpyRecords, 1, MaxRows)),
                       c \in FileOrNone("TLT", Contents(DateRecords, 1, 1))}]

SpecOneRun == InitOneRun /\ [][NextOneRun]_vars

\* Lines of the files of SpecClean: a date at two times of day, another date,
\* an unparseable date; two values, an empty and an unparseable price
CleanRecords ==
    {Line(d, p) : d \in {D2, <<2020, 1, 2, 12>>, D3, NoDate},
                  p \in {"10", "20", "", "abc"}}

InitClean ==
    /\ ProgIdle
    /\ PickIdle
    /\ cl_bytes \in Contents(CleanRecords, 0, MaxLines)
    /\ cl_result = Raised
    /\ cl_pc = "call"

SpecClean == InitClean /\ [][CleanCall]_vars

PickSymbols == {"QQQ", "SPY", "TLT", "spy"}

InitPick ==
    /\ ProgIdle
    /\ CleanIdle
    /\ pm_preferred \in SeqsOf(PickSymbols, 0, MaxPreferred)
    /\ pm_available \in SUBSET PickSymbols
    /\ pm_result = NoTicker
    /\ pm_pc = "call"

SpecPick == InitPick /\ [][PickCall]_vars

----------------------------------------------------------------------------
(* Properties *)

\* the data lines of a file, dates normalized
DataLines(bytes) == to_datetime(read_csv(bytes))

\* whether some token after the header of the file cannot be parsed
Unparseable(bytes) ==
    \E i \in 1..Len(read_csv(bytes)) :
        \/ ~ParseableDate(read_csv(bytes)[i].Date)
        \/ ~ParseablePrice(read_csv(bytes)[i].AdjClose)

\* build_market has written the artifacts of market cur and not yet returned
Built == pc = "return"

Matrix == out[cur].prices

Calendar == out[cur].prices.index

\* C1: for every file, whatever the order of its lines, the Series that
\* clean_single_csv_fixed_format returns holds exactly one observation for
\* each normalized date of the data lines, and its value is the value of the
\* line that is last in the file among those of that date.
C1_LastRecordWins ==
    (cl_pc = "returned" /\ cl_result.ok) =>
        LET df == DataLines(cl_bytes)
            s == cl_result.s
        IN \A i \in 1..Len(df) :
              (\A j \in (i + 1)..Len(df) : df[j].Date # df[i].Date) =>
                 /\ Cardinality({k \in 1..Len(s) : s[k].Date = df[i].Date}) = 1
                 /\ \A k \in 1..Len(s) :
                       s[k].Date = df[i].Date =>
                          s[k].AdjClose = ParsePrice(df[i].AdjClose)

\* C2: in the Matrix, for every master date d and every symbol t, the cell
\* (d, t) is absent (NaN) if and only if the Series of t has no observation
\* on d, and a cell that is not absent equals the Series value on d.
C2_AbsentIffNoObservation ==
    Built =>
        \A t \in DOMAIN series_map : \A i \in 1..Len(Calendar) :
            LET s == series_map[t]
                obs == {j \in 1..Len(s) : s[j].Date = Calendar[i]}
            IN /\ (Matrix.data[t][i].kind = "nan") <=> (obs = {})
               /\ Matrix.data[t][i].kind # "nan" =>
                     \A j \in obs : Matrix.data[t][i] = s[j].AdjClose

\* C3: the Matrix has as many rows as the master Series has observations; its
\* row index holds every date of the master's file exactly once, strictly
\* increasing; every column has one cell per master date, whatever dates the
\* other instruments have.
C3_CalendarComplete ==
    Built =>
        LET master == out[cur].manifest.master_ticker
            lines == DataLines(parsed[master])
        IN /\ Len(Calendar) = Len(series_map[master])
           /\ \A i, j \in 1..Len(Calendar) :
                 i < j => DateLess(Calendar[i], Calendar[j])
           /\ {Calendar[i] : i \in 1..Len(Calendar)}
                 = {lines[i].Date : i \in 1..Len(lines)}
           /\ DOMAIN Matrix.data = DOMAIN series_map
           /\ \A t \in DOMAIN series_map :
                 Len(Matrix.data[t]) = Len(Calendar)

\* C3 witness: a Matrix of three instruments and two rows or more, whose
\* master file repeats a date and where another instrument has a date the
\* master has not
C3_Witness ==
    /\ Built
    /\ cur = "us"
    /\ Cardinality(DOMAIN series_map) = 3
    /\ Len(Calendar) >= 2
    /\ LET master == out[cur].manifest.master_ticker IN
          /\ Len(DataLines(parsed[master])) > Len(Calendar)
          /\ \E t \in DOMAIN series_map : \E j \in 1..Len(series_map[t]) :
                \A i \in 1..Len(Calendar) :
                   series_map[t][j].Date # Calendar[i]

\* C4: for every preference list and every non-empty available set,
\* pick_master_ticker returns a member of the available set: the first symbol
\* of the list that is available, or, when none is, the smallest available
\* symbol.
C4_PickMaster ==
    (pm_pc = "returned" /\ pm_available # {}) =>
        /\ pm_result \in pm_available
        /\ IF \E i \in 1..Len(pm_preferred) : pm_preferred[i] \in pm_available
           THEN \E i \in 1..Len(pm_preferred) :
                   /\ pm_preferred[i] = pm_result
                   /\ \A j \in 1..(i - 1) : pm_preferred[j] \notin pm_available
           ELSE \A x \in pm_available : x = pm_result \/ StrLess(pm_result, x)

\* C4 witness: the first preference is not available and the second is
\* returned, though a smaller symbol is available
C4_Witness ==
    /\ pm_pc = "returned"
    /\ Len(pm_preferred) = 2
    /\ pm_preferred[1] \notin pm_available
    /\ pm_result = pm_preferred[2]
    /\ \E x \in pm_available : StrLess(x, pm_result)

C6_MonthEnds ==
    Built =>
        LET months == out[cur].month_ends
            cal == {Calendar[i] : i \in 1..Len(Calendar)}
        IN /\ {<<months[k].Year, months[k].Month>> : k \in 1..Len(months)}
                 = {<<d[1], d[2]>> : d \in cal}
           /\ Len(months) = Cardinality({<<d[1], d[2]>> : d \in cal})
           /\ \A k \in 1..Len(months) :
                 /\ months[k].MonthEndDate \in cal
                 /\ months[k].MonthEndDate[1] = months[k].Year
                 /\ months[k].MonthEndDate[2] = months[k].Month
                 /\ \A d \in cal :
                       (d[1] = months[k].Year /\ d[2] = months[k].Month) =>
                          Ordinal(d) <= Ordinal(months[k].MonthEndDate)
           /\ \A k, l \in 1..Len(months) :
                 k < l => DateLess(months[k].MonthEndDate,
                                   months[l].MonthEndDate)

\* C6 witness: a Calendar of three dates in two months of two years, so that
\* one month has two dates
C6_Witness ==
    /\ Built
    /\ cur = "us"
    /\ Len(Calendar) = 3
    /\ Len(out[cur].month_ends) = 2
    /\ out[cur].month_ends[1].Year # out[cur].month_ends[2].Year

\* C7: the health report has one row per instrument, ordered by the lag
\* (master max date minus the instrument's max date, in days, negative when
\* the instrument is ahead) descending, equal lags by symbol ascending, also
\* after the missing-count columns are attached.
C7_HealthOrder ==
    Built =>
        LET h == out[cur].health
            master == out[cur].manifest.master_ticker
            lag(t) == Ordinal(IndexMax(Index(series_map[master])))
                         - Ordinal(IndexMax(Index(series_map[t])))
        IN /\ Len(h) = Cardinality(DOMAIN series_map)
           /\ {h[i].Ticker : i \in 1..Len(h)} = DOMAIN series_map
           /\ \A i \in 1..Len(h) :
                 /\ h[i].LagToMasterMax_Days = lag(h[i].Ticker)
                 /\ h[i].MissingInFullMatrix =
                       Cardinality({k \in 1..Len(Calendar) :
                                      Matrix.data[h[i].Ticker][k].kind = "nan"})
           /\ \A i, j \in 1..Len(h) :
                 i < j =>
                    \/ h[i].LagToMasterMax_Days > h[j].LagToMasterMax_Days
                    \/ /\ h[i].LagToMasterMax_Days = h[j].LagToMasterMax_Days
                       /\ StrLess(h[i].Ticker, h[j].Ticker)

\* C7 witness: three rows, two of equal lag, one of negative lag, and one
\* with a missing cell
C7_Witness ==
    /\ Built
    /\ LET h == out[cur].health IN
          /\ Len(h) = 3
          /\ h[1].LagToMasterMax_Days = h[2].LagToMasterMax_Days
          /\ h[3].LagToMasterMax_Days < 0
          /\ \E i \in 1..3 : h[i].MissingInFullMatrix > 0

\* whether build_market(m) raises FileNotFoundError
InputMissing(m) ==
    \/ ~fs[MARKETS[m].in_dir].exists
    \/ fs[MARKETS[m].in_dir].files = {}

\* C8: in a run over all markets, when the input directory of one market is
\* missing or empty, every other market is still built.
C8_OtherMarketsBuilt ==
    (pc \in {"done", "raised"} /\ arg_market = ""
        /\ \E m \in DOMAIN MARKETS : InputMissing(m)) =>
        \A m \in DOMAIN MARKETS :
            ~InputMissing(m) => (m \in attempted /\ out[m].written = OUT_FILES)

\* C9: when a file of the market has a date or price token that cannot be
\* parsed, build_market stops with an error and writes no artifact.
C9_FormatErrorStops ==
    (\E t \in DOMAIN parsed : Unparseable(parsed[t])) =>
        (pc = "raised" /\ wrote = {})

\* C10: in one build_market run every input file is read at most once, and
\* the digest recorded for a file is the digest of the bytes its Series was
\* parsed from.
C10_ReadOnce ==
    /\ \A p \in DOMAIN reads : reads[p] <= 1
    /\ \A t \in DOMAIN file_meta :
          file_meta[t].sha256 = sha256_file(parsed[t])

====
